---- MODULE Spec2Model ----
(***************************************************************************)
(* Model of docs/examples/linux-system-mcp-server.py: the tool dispatcher  *)
(* (list_tools / call_tool), the four system inspectors and the restricted *)
(* command runner (run_safe_command).                                      *)
(*                                                                         *)
(* Strings the code inspects character by character (the command) are      *)
(* sequences of one-character strings.  A request is handled from "idle";  *)
(* the handler's value (or the exception it raises) is in `result` when    *)
(* pc = "returned"; Respond hands it to the host and waits for the next    *)
(* request.                                                                *)
(***************************************************************************)
EXTENDS Integers, Sequences, FiniteSets, TLC

VARIABLES
    pc,        \* "idle" | "running" (inside subprocess.run) | "draining" | "returned"
    call,      \* the request being handled: tool name and argument bag
    result,    \* what call_tool produced: [kind, tag, body]
    gate,      \* run_safe_command's locals base_cmd and is_safe
    launched,  \* the commands handed to subprocess.run during this call
    alive,     \* processes started for the command that still run
    timer,     \* "off" | "armed" | "expired": the timeout of subprocess.run
    drain,     \* whether the runtime's run() reads the pipes to EOF after the kill
    procs,     \* what psutil.process_iter met during this call
    parts,     \* what psutil.disk_partitions / disk_usage met during this call
    sys,       \* what the three best-effort fetches of get_system_info met
    net        \* what psutil.net_if_addrs / net_if_stats met during this call

vars == <<pc, call, result, gate, launched, alive, timer, drain, procs, parts, sys, net>>

----------------------------------------------------------------------------
(* Bounds of the explored inputs *)

MaxProcs == 3      \* processes in one enumeration
MaxCpu == 1        \* cpu_percent values 0..MaxCpu
MaxParts == 2      \* mounted partitions
MaxTotal == 2      \* partition sizes 0..MaxTotal
MaxLines == 2      \* lines of /etc/os-release
MaxChildren == 1   \* processes the shell forks for one command
MaxIfaces == 1     \* network interfaces

----------------------------------------------------------------------------
(* Program constants *)

DefaultLimit == 10
TimeoutSeconds == 30

\* psutil's ad_value: the value of an attribute that could not be read
None == -1

Min(a, b) == IF a < b THEN a ELSE b
Max(a, b) == IF a > b THEN a ELSE b
Range(s) == {s[i] : i \in 1..Len(s)}

----------------------------------------------------------------------------
(* Command Gate: the allowlist and the prefix test *)

safe_commands ==
    << <<"l","s">>,
       <<"p","w","d">>,
       <<"w","h","o","a","m","i">>,
       <<"d","a","t","e">>,
       <<"u","p","t","i","m","e">>,
       <<"d","f">>,
       <<"f","r","e","e">>,
       <<"u","n","a","m","e">>,
       <<"w","h","i","c","h">>,
       <<"w","h","e","r","e","i","s">>,
       <<"l","o","c","a","t","e">>,
       <<"f","i","n","d">>,
       <<"g","r","e","p">>,
       <<"c","a","t">>,
       <<"h","e","a","d">>,
       <<"t","a","i","l">>,
       <<"w","c">>,
       <<"s","o","r","t">>,
       <<"u","n","i","q">>,
       <<"c","u","t">>,
       <<"p","s">>,
       <<"t","o","p">>,
       <<"h","t","o","p">>,
       <<"n","e","t","s","t","a","t">>,
       <<"s","s">>,
       <<"l","s","o","f">>,
       <<"s","y","s","t","e","m","c","t","l"," ","s","t","a","t","u","s">>,
       <<"j","o","u","r","n","a","l","c","t","l">>,
       <<"d","m","e","s","g">> >>

\* str.isspace for the characters of the explored commands
IsSpace(ch) == ch \in {" ", "\t", "\n"}

\* the length of the leading run of non-whitespace characters of s
RECURSIVE TokenLen(_)
TokenLen(s) ==
    IF s = <<>> \/ IsSpace(Head(s)) THEN 0 ELSE 1 + TokenLen(Tail(s))

\* str.split(): the maximal runs of non-whitespace characters, in order
RECURSIVE Split(_)
Split(s) ==
    IF s = <<>> THEN <<>>
    ELSE IF IsSpace(Head(s)) THEN Split(Tail(s))
    ELSE LET n == TokenLen(s)
         IN  <<SubSeq(s, 1, n)>> \o Split(SubSeq(s, n + 1, Len(s)))

\* base_cmd = command.split()[0] if command.split() else ""
BaseCmd(command) ==
    IF Split(command) # <<>> THEN Split(command)[1] ELSE <<>>

\* str.startswith: p is matched character by character at the start of s
StartsWith(s, p) ==
    /\ Len(p) <= Len(s)
    /\ \A i \in 1..Len(p) : s[i] = p[i]

\* a gate that compares the first token with the allowlist entries
IsSafeFirstToken(command) ==
    \E k \in 1..Len(safe_commands) : BaseCmd(command) = safe_commands[k]

\* a gate with the operands of startswith exchanged
IsSafeReversed(command) ==
    \E k \in 1..Len(safe_commands) : StartsWith(safe_commands[k], command)

\* is_safe = any(command.startswith(safe_cmd) for safe_cmd in safe_commands)
IsSafe(command) ==
    \E k \in 1..Len(safe_commands) : StartsWith(command, safe_commands[k])

----------------------------------------------------------------------------
(* Tool Dispatcher: the registry and the branch on the tool name *)

\* the names of the descriptors list_tools returns, in order
ListTools ==
    <<"get_system_info", "list_processes", "check_disk_usage",
      "get_network_info", "run_command">>

\* a dispatcher whose branch for get_network_info is missing
RouteDropped(name) ==
    IF name = "get_system_info" THEN "get_system_info"
    ELSE IF name = "list_processes" THEN "list_processes"
    ELSE IF name = "check_disk_usage" THEN "check_disk_usage"
    ELSE IF name = "run_command" THEN "run_safe_command"
    ELSE "raise"

\* the if/elif chain of call_tool: the handler a name is routed to
Route(name) ==
    IF name = "get_system_info" THEN "get_system_info"
    ELSE IF name = "list_processes" THEN "list_processes"
    ELSE IF name = "check_disk_usage" THEN "check_disk_usage"
    ELSE IF name = "get_network_info" THEN "get_network_info"
    ELSE IF name = "run_command" THEN "run_safe_command"
    ELSE "raise"

\* argument values: t is the value's type, i / s its value when int / str
Absent == [t |-> "absent", i |-> 0, s |-> <<>>]
IntArg(n) == [t |-> "int", i |-> n, s |-> <<>>]
StrArg(str) == [t |-> "str", i |-> 0, s |-> str]
OtherArg == [t |-> "other", i |-> 0, s |-> <<>>]

\* arguments.get(key, default)
ArgGet(arg, default) == IF arg.t = "absent" THEN default ELSE arg

NoResult == [kind |-> "none", tag |-> "", handler |-> "", body |-> <<>>]
Text(handler, tag, body) ==
    [kind |-> "text", tag |-> tag, handler |-> handler, body |-> body]
Raise(handler, tag, body) ==
    [kind |-> "raise", tag |-> tag, handler |-> handler, body |-> body]

NoCall == [name |-> "", limit |-> Absent, command |-> Absent]
NoGate == [base_cmd |-> <<>>, is_safe |-> FALSE]
NoProcess == [shell |-> FALSE, kids |-> {}]
NoSys == [lines |-> <<>>, distro_fail |-> None, memory_fail |-> None, cpu_fail |-> None]
NoNet == [fails |-> FALSE, ifaces |-> <<>>]

----------------------------------------------------------------------------
(* Requests *)

\* tool names a caller may send: the registered ones and unregistered ones
Names == Range(ListTools) \cup {"nonexistent_tool", "", "Run_Command"}

Suffixes ==
    { <<>>, <<"x">>, <<" ","f","o","o">>, <<" ","|"," ","c","a","t">> }

Specials ==
    { <<"s","y","s","t","e","m","c","t","l"," ","s","t","o","p"," ","f","o","o">>,
      <<"r","m"," ","-","r","f"," ","/">>,
      <<"e","c","h","o"," ","h","i">>,
      <<"\t","p","s">> }

\* the explored command strings: every allowlist entry alone, with a glued or
\* separated suffix and after a blank, every proper prefix of an entry (the
\* empty string among them), and commands that match no entry
Commands ==
    {safe_commands[k] \o sfx : k \in 1..Len(safe_commands), sfx \in Suffixes}
    \cup {<<" ">> \o safe_commands[k] : k \in 1..Len(safe_commands)}
    \cup UNION {{SubSeq(safe_commands[k], 1, n) : n \in 0..(Len(safe_commands[k]) - 1)} :
                k \in 1..Len(safe_commands)}
    \cup Specials

CommandArgs == {Absent, OtherArg} \cup {StrArg(c) : c \in Commands}

Children == 1..MaxChildren

----------------------------------------------------------------------------
(* Command Runner *)

\* with shell=True the child of subprocess.run is the shell; for a pipeline
\* or a command list the shell forks the commands as its own children
ForksChildren(command) ==
    \E i \in 1..Len(command) : command[i] \in {"|", ";", "&"}

\* run_safe_command(command); spawn, kids and dr are what the launch meets:
\* whether the shell could be started, the processes the shell forks, and
\* whether run() waits for the pipes to close after killing the shell
run_safe_command(command, spawn, kids, dr) ==
    IF command.t # "str"
    THEN \* command.split() is evaluated outside the try block
         /\ pc' = "returned"
         /\ result' = Raise("run_safe_command", "attribute_error", <<>>)
         /\ UNCHANGED <<gate, launched, alive, timer, drain>>
    ELSE LET base_cmd == BaseCmd(command.s)
             is_safe == IsSafe(command.s)
         IN  /\ gate' = [base_cmd |-> base_cmd, is_safe |-> is_safe]
             /\ IF ~is_safe
                THEN /\ pc' = "returned"
                     /\ result' = Text("run_safe_command", "refused",
                                       [command |-> command.s, allowed |-> safe_commands])
                     /\ UNCHANGED <<launched, alive, timer, drain>>
                ELSE IF ~spawn
                THEN \* subprocess.run raised something other than TimeoutExpired
                     /\ pc' = "returned"
                     /\ result' = Text("run_safe_command", "run_error", <<>>)
                     /\ launched' = Append(launched, command.s)
                     /\ UNCHANGED <<alive, timer, drain>>
                ELSE /\ pc' = "running"
                     /\ launched' = Append(launched, command.s)
                     /\ alive' = [shell |-> TRUE, kids |-> kids]
                     /\ timer' = "armed"
                     /\ drain' = dr
                     /\ UNCHANGED result

CallRunCommand ==
    /\ pc = "idle"
    /\ \E name \in Names, arg \in CommandArgs, spawn \in BOOLEAN,
          kids \in SUBSET Children, dr \in BOOLEAN :
          /\ Route(name) = "run_safe_command"
          /\ (arg.t = "str" /\ ForksChildren(arg.s)) => kids # {}
          /\ call' = [name |-> name, limit |-> Absent, command |-> arg]
          /\ run_safe_command(ArgGet(arg, StrArg(<<>>)), spawn, kids, dr)
    /\ UNCHANGED <<procs, parts, sys, net>>

\* the subprocess ends within the timeout: result.returncode, stdout, stderr
Complete ==
    /\ pc = "running"
    /\ \E code \in {0, 1}, out \in BOOLEAN, err \in BOOLEAN :
          result' = Text("run_safe_command", "completed",
                         [command |-> launched[Len(launched)], exit |-> code,
                          stdout |-> out, stderr |-> err])
    /\ pc' = "returned"
    /\ alive' = NoProcess
    /\ timer' = "off"
    /\ UNCHANGED <<call, gate, launched, drain, procs, parts, sys, net>>

TimedOut ==
    Text("run_safe_command", "timed_out",
         [command |-> launched[Len(launched)], seconds |-> TimeoutSeconds])

\* the timeout expires: run() kills its child, the shell, and nothing else
Expire ==
    /\ pc = "running"
    /\ timer' = "expired"
    /\ alive' = [alive EXCEPT !.shell = FALSE]
    /\ IF drain /\ alive.kids # {}
       THEN pc' = "draining" /\ UNCHANGED result
       ELSE pc' = "returned" /\ result' = TimedOut
    /\ UNCHANGED <<call, gate, launched, drain, procs, parts, sys, net>>

\* a process the shell forked ends by itself
ChildExit ==
    /\ pc \in {"draining", "returned"}
    /\ \E k \in alive.kids : alive' = [alive EXCEPT !.kids = @ \ {k}]
    /\ UNCHANGED <<pc, call, result, gate, launched, timer, drain, procs, parts, sys, net>>

\* the pipes reach EOF once no forked process holds them
Drained ==
    /\ pc = "draining"
    /\ alive.kids = {}
    /\ pc' = "returned"
    /\ result' = TimedOut
    /\ UNCHANGED <<call, gate, launched, alive, timer, drain, procs, parts, sys, net>>

\* call_tool's else branch
CallUnknownTool ==
    /\ pc = "idle"
    /\ \E name \in Names, larg \in {Absent, IntArg(1)}, carg \in {Absent, StrArg(<<"l","s">>)} :
          /\ Route(name) = "raise"
          /\ call' = [name |-> name, limit |-> larg, command |-> carg]
          /\ result' = Raise("", "unknown_tool", [name |-> name])
    /\ pc' = "returned"
    /\ UNCHANGED <<gate, launched, alive, timer, drain, procs, parts, sys, net>>

\* list_tools
CallListTools ==
    /\ pc = "idle"
    /\ call' = [NoCall EXCEPT !.name = "tools/list"]
    /\ result' = [kind |-> "tools", tag |-> "", handler |-> "list_tools", body |-> ListTools]
    /\ pc' = "returned"
    /\ UNCHANGED <<gate, launched, alive, timer, drain, procs, parts, sys, net>>

----------------------------------------------------------------------------
(* System Inspector: list_processes *)

\* what the OS holds for one process while it is enumerated: gone when the
\* process vanished, and for each requested attribute its value or None when
\* reading it was denied (a readable name or memory_percent is written 0)
ProcStates ==
    {[gone |-> TRUE, cpu_percent |-> None, name |-> None, memory_percent |-> None]}
    \cup [gone : {FALSE}, cpu_percent : {None} \cup 0..MaxCpu,
          name : {None, 0}, memory_percent : {None, 0}]

ProcLists == UNION {[1..n -> ProcStates] : n \in 0..MaxProcs}

Null == [t |-> "null", i |-> 0, s |-> <<>>]

LimitArgs ==
    {Absent, OtherArg, Null} \cup {IntArg(n) : n \in -(MaxProcs + 1)..(MaxProcs + 1)}

\* psutil.process_iter(attrs): a vanished process is not yielded; a yielded
\* process carries info, with None for every attribute that was denied
RECURSIVE ProcessIter(_, _)
ProcessIter(plist, i) ==
    IF i > Len(plist) THEN <<>>
    ELSE IF plist[i].gone THEN ProcessIter(plist, i + 1)
    ELSE <<[pid |-> i, cpu_percent |-> plist[i].cpu_percent, name |-> plist[i].name,
            memory_percent |-> plist[i].memory_percent]>> \o ProcessIter(plist, i + 1)

\* an insertion that puts an entry before the entries of equal key
RECURSIVE InsertBeforeEqual(_, _)
InsertBeforeEqual(sorted, x) ==
    IF sorted = <<>> THEN <<x>>
    ELSE IF Head(sorted).cpu_percent > x.cpu_percent
         THEN <<Head(sorted)>> \o InsertBeforeEqual(Tail(sorted), x)
         ELSE <<x>> \o sorted

\* x placed after every entry whose key is not smaller: equal keys keep their order
RECURSIVE InsertDesc(_, _)
InsertDesc(sorted, x) ==
    IF sorted = <<>> THEN <<x>>
    ELSE IF Head(sorted).cpu_percent >= x.cpu_percent
         THEN <<Head(sorted)>> \o InsertDesc(Tail(sorted), x)
         ELSE <<x>> \o sorted

\* processes.sort(key=lambda x: x.get('cpu_percent', 0), reverse=True)
RECURSIVE SortDesc(_)
SortDesc(s) ==
    IF s = <<>> THEN <<>>
    ELSE InsertDesc(SortDesc(SubSeq(s, 1, Len(s) - 1)), s[Len(s)])

\* the sort compares keys; comparing None with anything raises TypeError
SortRaises(s) ==
    Len(s) >= 2 /\ \E i \in 1..Len(s) : s[i].cpu_percent = None

\* s[:stop] for an int stop: a negative stop counts from the end
Slice(s, stop) ==
    IF stop < 0 THEN SubSeq(s, 1, Max(Len(s) + stop, 0))
    ELSE SubSeq(s, 1, Min(stop, Len(s)))

\* formatting a row: None[:19] and format(None, '<8.1f') raise TypeError
FormatRaises(row) ==
    row.name = None \/ row.cpu_percent = None \/ row.memory_percent = None

\* list_processes(limit) over the processes plist
list_processes(limit, plist) ==
    LET processes == ProcessIter(plist, 1)
        rows == IF limit.t = "null" THEN SortDesc(processes)
                ELSE Slice(SortDesc(processes), limit.i)
    IN  IF SortRaises(processes)
        THEN Text("list_processes", "process_error", [at |-> "sort"])
        ELSE IF limit.t \notin {"int", "null"}
        THEN Text("list_processes", "process_error", [at |-> "slice"])
        ELSE IF \E i \in 1..Len(rows) : FormatRaises(rows[i])
        THEN Text("list_processes", "process_error", [at |-> "format"])
        ELSE Text("list_processes", "process_table", [limit |-> limit, rows |-> rows])

CallListProcesses ==
    /\ pc = "idle"
    /\ \E name \in Names, arg \in LimitArgs, plist \in ProcLists :
          /\ Route(name) = "list_processes"
          /\ call' = [name |-> name, limit |-> arg, command |-> Absent]
          /\ procs' = plist
          /\ result' = list_processes(ArgGet(arg, IntArg(DefaultLimit)), plist)
    /\ pc' = "returned"
    /\ UNCHANGED <<gate, launched, alive, timer, drain, parts, sys, net>>

----------------------------------------------------------------------------
(* System Inspector: check_disk_usage *)

\* what psutil.disk_usage meets for one partition: a usage record (total,
\* used), PermissionError ("denied") or another OSError ("oserror")
PartStates ==
    {[status |-> st, total |-> 0, used |-> 0] : st \in {"denied", "oserror"}}
    \cup UNION {{[status |-> "ok", total |-> t, used |-> u] : u \in 0..t} : t \in 0..MaxTotal}

PartEnvs ==
    {[fails |-> TRUE, list |-> <<>>]}
    \cup {[fails |-> FALSE, list |-> l] : l \in UNION {[1..n -> PartStates] : n \in 0..MaxParts}}

\* a cell of the table: a number, or the literal N/A
NA == [na |-> TRUE, v |-> 0]
Num(n) == [na |-> FALSE, v |-> n]

\* the body of the for loop raises something the inner except does not catch:
\* an OSError that is no PermissionError, or used / total with total = 0
PartitionRaises(p) ==
    p.status = "oserror" \/ (p.status = "ok" /\ p.total = 0)

\* the row appended for partition i
DiskRow(p, i) ==
    IF p.status = "denied"
    THEN [device |-> i, size |-> NA, used |-> NA, free |-> NA, percent |-> NA,
          mountpoint |-> i]
    ELSE [device |-> i, size |-> Num(p.total), used |-> Num(p.used),
          free |-> Num(p.total - p.used), percent |-> Num((p.used * 100) \div p.total),
          mountpoint |-> i]

\* check_disk_usage() over the partitions e
check_disk_usage(e) ==
    IF e.fails \/ \E i \in 1..Len(e.list) : PartitionRaises(e.list[i])
    THEN Text("check_disk_usage", "disk_error", <<>>)
    ELSE Text("check_disk_usage", "disk_table",
              [rows |-> [i \in 1..Len(e.list) |-> DiskRow(e.list[i], i)]])

CallCheckDiskUsage ==
    /\ pc = "idle"
    /\ \E name \in Names, e \in PartEnvs :
          /\ Route(name) = "check_disk_usage"
          /\ call' = [name |-> name, limit |-> Absent, command |-> Absent]
          /\ parts' = e
          /\ result' = check_disk_usage(e)
    /\ pc' = "returned"
    /\ UNCHANGED <<gate, launched, alive, timer, drain, procs, sys, net>>

----------------------------------------------------------------------------
(* System Inspector: get_system_info *)

\* a line of /etc/os-release: KEY=value with key ID or NAME, or a line without '='
LineKinds == {"ID", "NAME", "plain"}

MemoryFields == <<"total_gb", "available_gb", "percent_used">>
CpuFields == <<"cores", "logical_cores", "current_percent">>

\* the fetches: the lines of the file and, for each block, None when nothing
\* fails or the number of steps (lines read, fields computed) before the failure
SysEnvs ==
    UNION {[lines : [1..n -> LineKinds], distro_fail : {None} \cup 0..n,
            memory_fail : {None} \cup 0..(Len(MemoryFields) - 1),
            cpu_fail : {None} \cup 0..(Len(CpuFields) - 1)] : n \in 0..MaxLines}

\* the keys put into os_release by the first n lines
OsRelease(lines, n) == {lines[i] : i \in {j \in 1..n : lines[j] # "plain"}}

Block(fields) == [present |-> TRUE, fields |-> fields]
NoBlock == [present |-> FALSE, fields |-> {}]

\* a distro block stored in info before the file is read, and filled in place
DistroBlockEager(e) ==
    IF e.distro_fail = None THEN Block(OsRelease(e.lines, Len(e.lines)))
    ELSE IF e.distro_fail = 0 THEN NoBlock
    ELSE Block(OsRelease(e.lines, e.distro_fail))

\* info["distribution"] = os_release is the last statement of the try block
DistroBlock(e) ==
    IF e.distro_fail = None THEN Block(OsRelease(e.lines, Len(e.lines))) ELSE NoBlock

\* info["memory"] = {...}: the dict is built before it is stored
MemoryBlock(e) ==
    IF e.memory_fail = None THEN Block(Range(MemoryFields)) ELSE NoBlock

\* info["cpu"] = {...}: the dict is built before it is stored
CpuBlock(e) ==
    IF e.cpu_fail = None THEN Block(Range(CpuFields)) ELSE NoBlock

\* the part of info built before the best-effort blocks
BaseInfo ==
    [timestamp |-> {}, hostname |-> {},
     os |-> {"system", "release", "version", "machine", "processor"},
     python |-> {"version", "implementation"}]

Optional(key, block) == IF block.present THEN key :> block.fields ELSE <<>>

\* get_system_info(): info maps each key present to the keys of its value
get_system_info(e) ==
    Text("get_system_info", "system_info",
         [info |-> Optional("distribution", DistroBlock(e))
                   @@ Optional("memory", MemoryBlock(e))
                   @@ Optional("cpu", CpuBlock(e))
                   @@ BaseInfo])

CallGetSystemInfo ==
    /\ pc = "idle"
    /\ \E name \in Names, e \in SysEnvs :
          /\ Route(name) = "get_system_info"
          /\ call' = [name |-> name, limit |-> Absent, command |-> Absent]
          /\ sys' = e
          /\ result' = get_system_info(e)
    /\ pc' = "returned"
    /\ UNCHANGED <<gate, launched, alive, timer, drain, procs, parts, net>>

----------------------------------------------------------------------------
(* System Inspector: get_network_info *)

\* an interface with one address: whether net_if_stats knows it, isup, the
\* address family and whether the address has a netmask
IfaceStates ==
    [in_stats : BOOLEAN, isup : BOOLEAN,
     family : {"AF_INET", "AF_INET6", "AF_PACKET", "AF_UNIX"}, netmask : BOOLEAN]

NetEnvs ==
    {[fails |-> TRUE, ifaces |-> <<>>]}
    \cup {[fails |-> FALSE, ifaces |-> l] :
          l \in UNION {[1..n -> IfaceStates] : n \in 0..MaxIfaces}}

\* the lines written for one interface
IfaceLines(f) ==
    <<"name">>
    \o (IF f.in_stats
        THEN <<IF f.isup THEN "Status: UP" ELSE "Status: DOWN", "Speed">>
        ELSE <<>>)
    \o (IF f.family = "AF_INET"
        THEN <<"IPv4">> \o (IF f.netmask THEN <<"Netmask">> ELSE <<>>)
        ELSE IF f.family = "AF_INET6" THEN <<"IPv6">>
        ELSE IF f.family = "AF_PACKET" THEN <<"MAC">>
        ELSE <<>>)

RECURSIVE NetLines(_, _)
NetLines(l, i) ==
    IF i > Len(l) THEN <<>> ELSE IfaceLines(l[i]) \o NetLines(l, i + 1)

\* get_network_info() over the interfaces e
get_network_info(e) ==
    IF e.fails
    THEN Text("get_network_info", "net_error", <<>>)
    ELSE Text("get_network_info", "net_info",
              [lines |-> <<"Network Interfaces:">> \o NetLines(e.ifaces, 1)])

CallGetNetworkInfo ==
    /\ pc = "idle"
    /\ \E name \in Names, e \in NetEnvs :
          /\ Route(name) = "get_network_info"
          /\ call' = [name |-> name, limit |-> Absent, command |-> Absent]
          /\ net' = e
          /\ result' = get_network_info(e)
    /\ pc' = "returned"
    /\ UNCHANGED <<gate, launched, alive, timer, drain, procs, parts, sys>>

----------------------------------------------------------------------------

Init ==
    /\ pc = "idle"
    /\ call = NoCall
    /\ result = NoResult
    /\ gate = NoGate
    /\ launched = <<>>
    /\ alive = NoProcess
    /\ timer = "off"
    /\ drain = FALSE
    /\ procs = <<>>
    /\ parts = [fails |-> FALSE, list |-> <<>>]
    /\ sys = NoSys
    /\ net = NoNet

\* the result is handed to the host; the server waits for the next request
Respond ==
    /\ pc = "returned"
    /\ pc' = "idle"
    /\ call' = NoCall
    /\ result' = NoResult
    /\ gate' = NoGate
    /\ launched' = <<>>
    /\ alive' = NoProcess
    /\ timer' = "off"
    /\ drain' = FALSE
    /\ procs' = <<>>
    /\ parts' = [fails |-> FALSE, list |-> <<>>]
    /\ sys' = NoSys
    /\ net' = NoNet

Next ==
    \/ CallRunCommand
    \/ Complete
    \/ Expire
    \/ ChildExit
    \/ Drained
    \/ CallUnknownTool
    \/ CallListTools
    \/ CallListProcesses
    \/ CallCheckDiskUsage
    \/ CallGetSystemInfo
    \/ CallGetNetworkInfo
    \/ Respond

Spec == Init /\ [][Next]_vars

----------------------------------------------------------------------------
(* Properties *)

Returned(handler) == pc = "returned" /\ result.handler = handler

\* the command string run_safe_command receives for the current request
RequestedCommand == IF call.command.t = "absent" THEN <<>> ELSE call.command.s

\* some allowlist entry is a literal prefix of c
HasAllowlistPrefix(c) ==
    \E k \in 1..Len(safe_commands) :
        /\ Len(safe_commands[k]) <= Len(c)
        /\ SubSeq(c, 1, Len(safe_commands[k])) = safe_commands[k]

\* C1: a command string without an allowlist prefix (the empty string that
\* stands for an absent 'command' included) is refused with a text that lists
\* the whole allowlist and no subprocess is started for it; every command
\* handed to subprocess.run is the requested one and has an allowlist prefix.
C1_RefusedWithoutLaunch ==
    /\ launched # <<>> => gate.is_safe
    /\ \A i \in 1..Len(launched) :
          launched[i] = RequestedCommand /\ HasAllowlistPrefix(launched[i])
    /\ (/\ pc # "idle"
        /\ call.name = "run_command"
        /\ call.command.t \in {"str", "absent"}
        /\ ~HasAllowlistPrefix(RequestedCommand))
       => /\ pc = "returned"
          /\ result.kind = "text"
          /\ result.tag = "refused"
          /\ result.body.command = RequestedCommand
          /\ result.body.allowed = safe_commands
          /\ Len(result.body.allowed) = 29
          /\ launched = <<>>
          /\ alive = NoProcess
          /\ timer = "off"

\* the absent command was replaced by the empty string and refused
C1_Witness ==
    /\ Returned("run_safe_command")
    /\ call.command.t = "absent"
    /\ result.tag = "refused"
    /\ result.body.command = <<>>
    /\ launched = <<>>

SystemctlStatusFoo ==
    <<"s","y","s","t","e","m","c","t","l"," ","s","t","a","t","u","s"," ","f","o","o">>
SystemctlStopFoo ==
    <<"s","y","s","t","e","m","c","t","l"," ","s","t","o","p"," ","f","o","o">>
Lsofx == <<"l","s","o","f","x">>
BlankLs == <<" ","l","s">>

\* C2: is_safe is true exactly when an allowlist entry is a literal prefix of
\* the raw command, whatever its first token is: "systemctl status foo" and
\* "lsofx" are safe, "systemctl stop foo", " ls" and "" are not; the command is
\* refused exactly when is_safe is false.
C2_SafeIffLiteralPrefix ==
    (/\ pc # "idle"
     /\ call.name = "run_command"
     /\ call.command.t \in {"str", "absent"})
    => /\ gate.is_safe = HasAllowlistPrefix(RequestedCommand)
       /\ gate.is_safe = (result.tag # "refused")
       /\ RequestedCommand \in {SystemctlStatusFoo, Lsofx} => gate.is_safe
       /\ RequestedCommand \in {SystemctlStopFoo, BlankLs, <<>>} => ~gate.is_safe

\* "lsofx" passed the gate although its first token is no allowlist entry
C2_Witness ==
    /\ pc = "running"
    /\ RequestedCommand = Lsofx
    /\ gate.base_cmd = Lsofx
    /\ gate.is_safe
    /\ launched = <<Lsofx>>

\* C3: for every limit <= 0 list_processes returns a table without rows
\* (stated for enumerations in which every attribute was readable).
C3_NonPositiveLimitEmpty ==
    (/\ Returned("list_processes")
     /\ call.limit.t = "int"
     /\ call.limit.i <= 0
     /\ \A i \in 1..Len(procs) :
           ~procs[i].gone =>
              /\ procs[i].cpu_percent # None
              /\ procs[i].name # None
              /\ procs[i].memory_percent # None)
    => /\ result.tag = "process_table"
       /\ result.body.rows = <<>>

\* C4: a call of a registered tool returns a text, whatever the arguments and
\* the environment are; it never raises.
C4_RegisteredToolNeverRaises ==
    (pc = "returned" /\ call.name \in Range(ListTools)) => result.kind = "text"

\* C5: when the timeout expired, the call returns the timed-out text and no
\* process started for the command is still running.
C5_TimeoutLeavesNoProcess ==
    (pc = "returned" /\ timer = "expired")
    => /\ result.tag = "timed_out"
       /\ alive = NoProcess

\* C6: check_disk_usage returns one row per partition, in order, with N/A in
\* the four numeric columns of a partition whose usage query was denied;
\* no failure on one partition removes the rows of the others.
C6_OneRowPerPartition ==
    (Returned("check_disk_usage") /\ ~parts.fails)
    => /\ result.tag = "disk_table"
       /\ Len(result.body.rows) = Len(parts.list)
       /\ \A i \in 1..Len(parts.list) :
             /\ result.body.rows[i].device = i
             /\ parts.list[i].status = "denied" =>
                   /\ result.body.rows[i].size = NA
                   /\ result.body.rows[i].used = NA
                   /\ result.body.rows[i].free = NA
                   /\ result.body.rows[i].percent = NA

\* C7: get_system_info always returns the snapshot with hostname and os; each
\* of distribution, memory and cpu is in it, complete, exactly when its fetch
\* did not fail, whatever happened to the other two.
C7_BlocksIndependent ==
    Returned("get_system_info")
    => /\ result.kind = "text"
       /\ result.tag = "system_info"
       /\ {"hostname", "os"} \subseteq DOMAIN result.body.info
       /\ "system" \in result.body.info["os"]
       /\ ("distribution" \in DOMAIN result.body.info) = (sys.distro_fail = None)
       /\ ("memory" \in DOMAIN result.body.info) = (sys.memory_fail = None)
       /\ ("cpu" \in DOMAIN result.body.info) = (sys.cpu_fail = None)
       /\ sys.distro_fail = None =>
             result.body.info["distribution"] =
                {sys.lines[i] : i \in 1..Len(sys.lines)} \ {"plain"}
       /\ sys.memory_fail = None =>
             result.body.info["memory"] = {"total_gb", "available_gb", "percent_used"}
       /\ sys.cpu_fail = None =>
             result.body.info["cpu"] = {"cores", "logical_cores", "current_percent"}

\* reading the file failed after a KEY=value line and the last cpu fetch
\* failed, while memory was fetched: only the memory block is in the snapshot
C7_Witness ==
    /\ Returned("get_system_info")
    /\ Len(sys.lines) >= 1
    /\ sys.lines[1] = "ID"
    /\ sys.distro_fail = 1
    /\ sys.memory_fail = None
    /\ sys.cpu_fail = 2
    /\ "memory" \in DOMAIN result.body.info
    /\ "cpu" \notin DOMAIN result.body.info
    /\ "distribution" \notin DOMAIN result.body.info

\* C8: an entry with an unreadable attribute is skipped: list_processes still
\* returns the table, made of readable entries only.
C8_UnreadableEntriesSkipped ==
    (Returned("list_processes") /\ call.limit.t \in {"int", "absent"})
    => /\ result.tag = "process_table"
       /\ \A k \in 1..Len(result.body.rows) :
             /\ result.body.rows[k].cpu_percent # None
             /\ result.body.rows[k].name # None
             /\ result.body.rows[k].memory_percent # None

\* C9: call_tool raises the unknown-tool error, carrying the name, exactly for
\* the names list_tools does not return; each registered name reaches its own
\* handler; list_tools returns the five names in registration order.
C9_UnknownToolExactly ==
    /\ (pc = "returned" /\ result.kind # "tools")
       => /\ (result.kind = "raise" /\ result.tag = "unknown_tool")
             = (call.name \notin Range(ListTools))
          /\ result.tag = "unknown_tool" => result.body.name = call.name
          /\ call.name = "get_system_info" => result.handler = "get_system_info"
          /\ call.name = "list_processes" => result.handler = "list_processes"
          /\ call.name = "check_disk_usage" => result.handler = "check_disk_usage"
          /\ call.name = "get_network_info" => result.handler = "get_network_info"
          /\ call.name = "run_command" => result.handler = "run_safe_command"
    /\ (pc = "returned" /\ result.kind = "tools")
       => result.body = <<"get_system_info", "list_processes", "check_disk_usage",
                          "get_network_info", "run_command">>

\* the unregistered name came back in the error
C9_Witness ==
    /\ pc = "returned"
    /\ call.name = "nonexistent_tool"
    /\ result.kind = "raise"
    /\ result.tag = "unknown_tool"
    /\ result.body.name = "nonexistent_tool"

\* the processes the enumeration yields, by position
Enumerated == {i \in 1..Len(procs) : ~procs[i].gone}

\* i is listed before j: larger cpu_percent, or equal and enumerated earlier
RankedBefore(i, j) ==
    \/ procs[i].cpu_percent > procs[j].cpu_percent
    \/ procs[i].cpu_percent = procs[j].cpu_percent /\ i < j

RequestedLimit == IF call.limit.t = "absent" THEN DefaultLimit ELSE call.limit.i

====
